---- MODULE Spec2Model ----
(***************************************************************************)
(* Flight planner: batch enumeration of query tuples (main.py) and the     *)
(* two fetch / normalize pipelines (one_way.py, round_trip.py).            *)
(*                                                                         *)
(* Python values are represented as follows.                               *)
(*   - a dict is a function whose DOMAIN is the set of keys present;       *)
(*   - a JSON scalar inside a provider document is a 1-tuple <<v>>, and    *)
(*     Python's None is the 0-tuple <<>> (so that None, "" and 0 are three *)
(*     different values that can be compared with each other);             *)
(*   - command line strings, file names and dates-as-text are strings.     *)
(***************************************************************************)
EXTENDS Integers, Sequences, FiniteSets, TLC

VARIABLES
    env,        \* os.environ: SERPAPI_API_KEY, <<>> when unset, else <<string>>
    args,       \* the parsed command line (argparse namespace)
    pc,         \* position of the running main()
    cities,     \* main.py local: args.cities.split(',')
    depart_dates, \* main.py local: list of date objects
    return_dates, \* main.py local: list of date objects
    i, j, k, l, \* positions of the four nested for loops (1-based)
    raw,        \* the *.json files on disk: file name -> document
    csv,        \* the *.csv files on disk: file name -> sequence of rows
    clock,      \* datetime.now(), as a tick count: one tick per call in main.py,
                \* any number of ticks (action Tick) in the two scripts
    log,        \* history of the calls made, in order
    skipped     \* history: (depart, return) pairs dropped by main.py line 78

vars == <<env, args, pc, cities, depart_dates, return_dates, i, j, k, l,
          raw, csv, clock, log, skipped>>

-----------------------------------------------------------------------------
(* Bounds of the model.                                                    *)

MaxCities == 2
MaxDates == 1
MaxReturnDates == MaxDates + 1
MaxBest == 2
MaxOther == MaxBest - 1
MaxClock == 3

-----------------------------------------------------------------------------
(* Python helpers.                                                         *)

None == <<>>

\* dict.get(key, default)
Get(d, key, default) == IF key \in DOMAIN d THEN d[key] ELSE default

\* d[key] raises KeyError
HasKey(d, key) == key \in DOMAIN d

\* str.split(',') results of bounded length: never the empty list
SeqsUpTo(S, n) == UNION {[1..m -> S] : m \in 1..n}

\* all sequences over S of length 0..n
SeqsFrom0(S, n) == UNION {[1..m -> S] : m \in 0..n}

\* variant: an existing file is kept (the write is skipped)
WriteFileKeep(fs, name, content) ==
    [f \in DOMAIN fs \cup {name} |-> IF f \in DOMAIN fs THEN fs[f] ELSE content]

\* file system write: open(name, "w") replaces the previous content
WriteFile(fs, name, content) ==
    [f \in DOMAIN fs \cup {name} |-> IF f = name THEN content ELSE fs[f]]

-----------------------------------------------------------------------------
(* Dates. A date object is <<year, month, day>>; date strings are strings. *)

\* datetime.fromisoformat(s).date(): the strings the model draws from.
\* A string with a time part parses to the same date as the bare date.
IsoTable ==
    [s \in {"2025-01-31", "2025-01-31T10:00", "2025-02-01"} |->
        CASE s = "2025-01-31"       -> <<2025, 1, 31>>
          [] s = "2025-01-31T10:00" -> <<2025, 1, 31>>
          [] s = "2025-02-01"       -> <<2025, 2, 1>>]

\* fromisoformat raises ValueError on anything else, the empty string included
IsIsoString(s) == s \in DOMAIN IsoTable

DateStrings == DOMAIN IsoTable \cup {""}

Pad2(n) == IF n < 10 THEN "0" \o ToString(n) ELSE ToString(n)

\* str(date): date.isoformat()
DateStr(d) == ToString(d[1]) \o "-" \o Pad2(d[2]) \o "-" \o Pad2(d[3])

\* date.__le__: lexicographic on (year, month, day)
DateLE(a, b) ==
    \/ a[1] < b[1]
    \/ a[1] = b[1] /\ a[2] < b[2]
    \/ a[1] = b[1] /\ a[2] = b[2] /\ a[3] <= b[3]

\* iso_dates(date_strings): the split list; raises if any entry is invalid
IsoDatesRaises(strs) == \E n \in 1..Len(strs) : ~IsIsoString(strs[n])

iso_dates(strs) == [n \in 1..Len(strs) |-> IsoTable[strs[n]]]

\* truthiness of args.return_dates: None and "" are both falsy.
\* <<>> stands for None (option not given), <<"">> is "".split(',')
ReturnDatesGiven(strs) == strs # <<>> /\ strs # <<"">>

-----------------------------------------------------------------------------
(* Normalizers: one_way.process_flight_data, round_trip.process_roundtrip_data *)

\* variant: the two lists concatenated the other way round
AllFlightsOtherFirst(data) ==
    Get(data, "other_flights", <<>>) \o Get(data, "best_flights", <<>>)

\* data.get("best_flights", []) + data.get("other_flights", [])
AllFlights(data) ==
    Get(data, "best_flights", <<>>) \o Get(data, "other_flights", <<>>)

\* entry["flights"][0] : KeyError without the key, IndexError on an empty list
FirstSegmentRaises(entry) ==
    \/ ~HasKey(entry, "flights")
    \/ Len(entry["flights"]) = 0

\* seg["departure_airport"]["id"] ... seg["arrival_airport"]["time"]
AirportRaises(seg, which) ==
    \/ ~HasKey(seg, which)
    \/ ~HasKey(seg[which], "id")
    \/ ~HasKey(seg[which], "name")
    \/ ~HasKey(seg[which], "time")

\* the body of the for loop raises on this entry
EntryRaises(entry) ==
    \/ FirstSegmentRaises(entry)
    \/ AirportRaises(entry["flights"][1], "departure_airport")
    \/ AirportRaises(entry["flights"][1], "arrival_airport")

\* one_way.py line 59
OneWayDurationMin(entry, seg) ==
    Get(entry, "total_duration", Get(seg, "duration", None))

\* variant: the one-way fallback copied into the round-trip normalizer
RoundtripDurationWithFallback(entry, seg) ==
    Get(entry, "total_duration", Get(seg, "duration", None))

\* round_trip.py line 69
RoundtripTotalDurationMin(entry, seg) ==
    Get(entry, "total_duration", None)

\* one_way.py lines 46-62: the row appended for one entry
OneWayRow(entry) ==
    LET seg == entry["flights"][1] IN
    [ flight_number          |-> Get(seg, "flight_number", None),
      airline                |-> Get(seg, "airline", None),
      airplane               |-> Get(seg, "airplane", <<"">>),
      travel_class           |-> Get(seg, "travel_class", <<"">>),
      legroom                |-> Get(seg, "legroom", <<"">>),
      departure_airport_id   |-> seg["departure_airport"]["id"],
      departure_airport_name |-> seg["departure_airport"]["name"],
      departure_time         |-> seg["departure_airport"]["time"],
      arrival_airport_id     |-> seg["arrival_airport"]["id"],
      arrival_airport_name   |-> seg["arrival_airport"]["name"],
      arrival_time           |-> seg["arrival_airport"]["time"],
      duration_min           |-> OneWayDurationMin(entry, seg),
      price_usd              |-> Get(entry, "price", None),
      booking_token          |-> Get(entry, "booking_token", None) ]

\* round_trip.py lines 56-74: the row appended for one entry
RoundtripRow(entry, fetched_at) ==
    LET seg == entry["flights"][1] IN
    [ flight_number          |-> Get(seg, "flight_number", None),
      airline                |-> Get(seg, "airline", None),
      airplane               |-> Get(seg, "airplane", <<"">>),
      travel_class           |-> Get(seg, "travel_class", <<"">>),
      legroom                |-> Get(seg, "legroom", <<"">>),
      departure_airport_id   |-> seg["departure_airport"]["id"],
      departure_airport_name |-> seg["departure_airport"]["name"],
      departure_time         |-> seg["departure_airport"]["time"],
      arrival_airport_id     |-> seg["arrival_airport"]["id"],
      arrival_airport_name   |-> seg["arrival_airport"]["name"],
      arrival_time           |-> seg["arrival_airport"]["time"],
      total_duration_min     |-> RoundtripTotalDurationMin(entry, seg),
      price_usd              |-> Get(entry, "price", None),
      trip_type              |-> Get(entry, "type", None),
      departure_token        |-> Get(entry, "departure_token", None),
      fetched_at             |-> fetched_at ]

\* one_way.py lines 44-62: the loop; rows holds what was appended before a raise
RECURSIVE OneWayLoop(_, _)
OneWayLoop(all_flights, rows) ==
    IF all_flights = <<>> THEN [raised |-> FALSE, rows |-> rows]
    ELSE IF EntryRaises(Head(all_flights)) THEN [raised |-> TRUE, rows |-> rows]
    ELSE OneWayLoop(Tail(all_flights), Append(rows, OneWayRow(Head(all_flights))))

\* round_trip.py lines 54-74
RECURSIVE RoundtripLoop(_, _, _)
RoundtripLoop(all_flights, rows, fetched_at) ==
    IF all_flights = <<>> THEN [raised |-> FALSE, rows |-> rows]
    ELSE IF EntryRaises(Head(all_flights)) THEN [raised |-> TRUE, rows |-> rows]
    ELSE RoundtripLoop(Tail(all_flights),
                       Append(rows, RoundtripRow(Head(all_flights), fetched_at)),
                       fetched_at)

\* variant: the timestamp taken again when normalizing
RoundtripFetchedAtNow(data) == <<"T" \o ToString(clock)>>

\* round_trip.py line 52
RoundtripFetchedAt(data) == Get(data, "_fetched_at", <<"">>)

\* process_flight_data up to the DataFrame: [raised, rows]
ProcessFlightData(data) == OneWayLoop(AllFlights(data), <<>>)

\* process_roundtrip_data up to the DataFrame: [raised, rows]
ProcessRoundtripData(data) ==
    RoundtripLoop(AllFlights(data), <<>>, RoundtripFetchedAt(data))

\* variant: the rows collected so far are written even after a raise
CsvAfterProcessPartial(fs, output_csv, result) ==
    WriteFile(fs, output_csv, result.rows)

\* df.to_csv(output_csv) is reached only when the loop did not raise
CsvAfterProcess(fs, output_csv, result) ==
    IF result.raised THEN fs ELSE WriteFile(fs, output_csv, result.rows)

-----------------------------------------------------------------------------
(* Fetchers: the document written to raw_json_file                         *)

\* datetime.now().isoformat()
IsoFormatNow(now) == <<"T" \o ToString(now)>>

\* one_way.py lines 25-28: the provider's dict, written as returned
OneWayResults(results) == results

\* round_trip.py lines 30-37: results["_fetched_at"] = fetched_at
RoundtripResults(results, now) ==
    [key \in DOMAIN results \cup {"_fetched_at"} |->
        IF key = "_fetched_at" THEN IsoFormatNow(now) ELSE results[key]]

-----------------------------------------------------------------------------
(* The provider (GoogleSearch(params).get_dict()), seen from main.py        *)

\* a flight option from from_city to to_city on the queried date
ProviderEntry(from_city, to_city, date_str) ==
    [ flights |-> << [ departure_airport |->
                           [id |-> <<from_city>>, name |-> <<from_city>>, time |-> <<date_str>>],
                       arrival_airport |->
                           [id |-> <<to_city>>, name |-> <<to_city>>, time |-> <<date_str>>],
                       duration |-> <<125>> ] >>,
      price |-> <<100>> ]

\* what get_dict() can hand back to a batch run: a usable document, or a
\* document whose second itinerary has no segments; "error" is get_dict() raising
ProviderOutcomes == {"ok", "malformed", "error"}

ProviderResults(outcome, from_city, to_city, date_str) ==
    IF outcome = "ok"
    THEN [ best_flights  |-> <<ProviderEntry(from_city, to_city, date_str)>> ]
    ELSE [ other_flights |-> << ProviderEntry(from_city, to_city, date_str),
                                [flights |-> <<>>, price |-> <<90>>] >> ]

-----------------------------------------------------------------------------
(* History of calls                                                        *)

\* query: the (from_city, to_city, depart_date[, return_date]) arguments of the call
\* data: the document written or read (None for the other calls)
\* now: the time of the call
Event(ev, trip, query, file, data) ==
    [ev |-> ev, trip |-> trip, query |-> query, file |-> file, data |-> <<data>>,
     now |-> clock]

\* the history keeps documents for the tuple in progress only
Forget(h) == [n \in 1..Len(h) |-> [h[n] EXCEPT !.data = <<None>>]]

Fetches(h, trip) == SelectSeq(h, LAMBDA e : e.ev = "fetch" /\ e.trip = trip)

-----------------------------------------------------------------------------
(* main.py                                                                 *)

Modes == {"one-way", "round-trip", "both"}
CityCodes == {"DEL", "BOM"}

\* The command line, each comma-separated option given as its list of fields
\* (what str.split(',') returns); return_dates = <<>> is the option left out.
BatchArgs ==
    [ cities       : SeqsUpTo(CityCodes, MaxCities),
      depart_dates : SeqsUpTo(DateStrings, MaxDates),
      return_dates : {<<>>} \cup SeqsUpTo(DateStrings, MaxReturnDates),
      mode         : Modes ]

Init ==
    /\ env \in {<<>>, <<"">>, <<"key">>}
    /\ args \in BatchArgs
    /\ pc = "start"
    /\ cities = <<>> /\ depart_dates = <<>> /\ return_dates = <<>>
    /\ i = 1 /\ j = 1 /\ k = 1 /\ l = 1
    /\ raw = <<>> /\ csv = <<>>
    /\ clock = 0
    /\ log = <<>>
    /\ skipped = 0

\* variant: api_key is None
ApiKeyIsNone == env = <<>>

\* not api_key
ApiKeyMissing == env = <<>> \/ env = <<"">>

\* lines 40-46 raise
ConfigRaises ==
    \/ ApiKeyMissing
    \/ IsoDatesRaises(args.depart_dates)
    \/ ReturnDatesGiven(args.return_dates) /\ IsoDatesRaises(args.return_dates)

\* main.py lines 38-46, a configuration error
StartupRaises ==
    /\ pc = "start"
    /\ ConfigRaises
    /\ pc' = "failed"
    /\ UNCHANGED <<env, args, cities, depart_dates, return_dates, i, j, k, l,
                   raw, csv, clock, log, skipped>>

\* main.py lines 38-49
Startup ==
    /\ pc = "start"
    /\ ~ConfigRaises
    /\ cities' = args.cities
    /\ depart_dates' = iso_dates(args.depart_dates)
    /\ return_dates' = IF ReturnDatesGiven(args.return_dates)
                       THEN iso_dates(args.return_dates) ELSE <<>>
    /\ pc' = IF args.mode \in {"one-way", "both"} THEN "ow_pair" ELSE "rt_guard"
    /\ i' = 1 /\ j' = 1
    /\ UNCHANGED <<env, args, k, l, raw, csv, clock, log, skipped>>

\* f"{from_city}_{to_city}_{depart_date}" + extension
OneWayName(from_city, to_city, depart_date, ext) ==
    from_city \o "_" \o to_city \o "_" \o DateStr(depart_date) \o ext

\* f"{from_city}_{to_city}_{depart_date}_{return_date}" + extension
RoundTripName(from_city, to_city, depart_date, return_date, ext) ==
    from_city \o "_" \o to_city \o "_" \o DateStr(depart_date)
              \o "_" \o DateStr(return_date) \o ext

\* variant: the exception is swallowed and the loop goes on
AfterCallSwallowed(raised, loop_pc, idx) == [pc |-> loop_pc, idx |-> idx + 1]

\* an exception raised inside a call leaves both loops and main(); otherwise
\* the innermost loop goes on with its next element
AfterCall(raised, loop_pc, idx) ==
    IF raised THEN [pc |-> "failed", idx |-> idx]
    ELSE [pc |-> loop_pc, idx |-> idx + 1]

\* line 50: the cities loop is exhausted
OneWayCitiesDone ==
    /\ pc = "ow_pair"
    /\ i > Len(cities)
    /\ pc' = "rt_guard"
    /\ UNCHANGED <<env, args, cities, depart_dates, return_dates, i, j, k, l,
                   raw, csv, clock, log, skipped>>

\* line 51: the inner cities loop is exhausted
OneWayNextOrigin ==
    /\ pc = "ow_pair"
    /\ i <= Len(cities) /\ j > Len(cities)
    /\ i' = i + 1 /\ j' = 1
    /\ UNCHANGED <<env, args, pc, cities, depart_dates, return_dates, k, l,
                   raw, csv, clock, log, skipped>>

\* lines 52-53
OneWaySelfPair ==
    /\ pc = "ow_pair"
    /\ i <= Len(cities) /\ j <= Len(cities)
    /\ cities[i] = cities[j]
    /\ j' = j + 1
    /\ UNCHANGED <<env, args, pc, cities, depart_dates, return_dates, i, k, l,
                   raw, csv, clock, log, skipped>>

\* line 54: enter the dates loop
OneWayEnterDates ==
    /\ pc = "ow_pair"
    /\ i <= Len(cities) /\ j <= Len(cities)
    /\ cities[i] # cities[j]
    /\ pc' = "ow_date" /\ k' = 1
    /\ UNCHANGED <<env, args, cities, depart_dates, return_dates, i, j, l,
                   raw, csv, clock, log, skipped>>

\* line 54: the dates loop is exhausted
OneWayDatesDone ==
    /\ pc = "ow_date"
    /\ k > Len(depart_dates)
    /\ pc' = "ow_pair" /\ j' = j + 1
    /\ UNCHANGED <<env, args, cities, depart_dates, return_dates, i, k, l,
                   raw, csv, clock, log, skipped>>

\* lines 55-64: fetch_flight_data_raw(...) (one_way.py lines 16-30)
OneWayFetch ==
    /\ pc = "ow_date"
    /\ k <= Len(depart_dates)
    /\ LET from_city   == cities[i]
           to_city     == cities[j]
           depart_date == depart_dates[k]
           raw_json    == OneWayName(from_city, to_city, depart_date, ".json")
           query       == <<from_city, to_city, DateStr(depart_date)>>
           call        == Event("fetch", "one-way", query, raw_json, None)
       IN \E outcome \in ProviderOutcomes :
            IF outcome = "error"
            THEN /\ pc' = "failed"
                 /\ log' = Append(Forget(log), call)
                 /\ raw' = raw
            ELSE LET results == OneWayResults(
                        ProviderResults(outcome, from_city, to_city, DateStr(depart_date)))
                 IN /\ raw' = WriteFile(raw, raw_json, results)
                    /\ log' = Forget(log) \o <<call,
                                Event("raw_write", "one-way", query, raw_json, results)>>
                    /\ pc' = "ow_process"
    /\ clock' = clock + 1
    /\ UNCHANGED <<env, args, cities, depart_dates, return_dates, i, j, k, l,
                   csv, skipped>>

\* lines 65-68: process_flight_data(...) (one_way.py lines 39-67)
OneWayProcess ==
    /\ pc = "ow_process"
    /\ LET from_city   == cities[i]
           to_city     == cities[j]
           depart_date == depart_dates[k]
           raw_json    == OneWayName(from_city, to_city, depart_date, ".json")
           csv_file    == OneWayName(from_city, to_city, depart_date, ".csv")
           query       == <<from_city, to_city, DateStr(depart_date)>>
           data        == raw[raw_json]
           result      == ProcessFlightData(data)
           read        == Event("normalize", "one-way", query, raw_json, data)
       IN /\ csv' = CsvAfterProcess(csv, csv_file, result)
          /\ log' = IF result.raised THEN Append(log, read)
                     ELSE log \o <<read,
                              Event("csv_write", "one-way", query, csv_file, None)>>
          /\ pc' = AfterCall(result.raised, "ow_date", k).pc
          /\ k' = AfterCall(result.raised, "ow_date", k).idx
    /\ clock' = clock + 1
    /\ UNCHANGED <<env, args, cities, depart_dates, return_dates, i, j, l,
                   raw, skipped>>

\* line 71: enter the round-trip section or finish
RoundTripGuard ==
    /\ pc = "rt_guard"
    /\ pc' = IF args.mode \in {"round-trip", "both"} /\ return_dates # <<>>
             THEN "rt_pair" ELSE "done"
    /\ i' = 1 /\ j' = 1
    /\ UNCHANGED <<env, args, cities, depart_dates, return_dates, k, l,
                   raw, csv, clock, log, skipped>>

\* line 72: the cities loop is exhausted, main() returns
RoundTripCitiesDone ==
    /\ pc = "rt_pair"
    /\ i > Len(cities)
    /\ pc' = "done"
    /\ UNCHANGED <<env, args, cities, depart_dates, return_dates, i, j, k, l,
                   raw, csv, clock, log, skipped>>

\* line 73: the inner cities loop is exhausted
RoundTripNextOrigin ==
    /\ pc = "rt_pair"
    /\ i <= Len(cities) /\ j > Len(cities)
    /\ i' = i + 1 /\ j' = 1
    /\ UNCHANGED <<env, args, pc, cities, depart_dates, return_dates, k, l,
                   raw, csv, clock, log, skipped>>

\* lines 74-75
RoundTripSelfPair ==
    /\ pc = "rt_pair"
    /\ i <= Len(cities) /\ j <= Len(cities)
    /\ cities[i] = cities[j]
    /\ j' = j + 1
    /\ UNCHANGED <<env, args, pc, cities, depart_dates, return_dates, i, k, l,
                   raw, csv, clock, log, skipped>>

\* line 76: enter the depart dates loop
RoundTripEnterDates ==
    /\ pc = "rt_pair"
    /\ i <= Len(cities) /\ j <= Len(cities)
    /\ cities[i] # cities[j]
    /\ pc' = "rt_depart" /\ k' = 1
    /\ UNCHANGED <<env, args, cities, depart_dates, return_dates, i, j, l,
                   raw, csv, clock, log, skipped>>

\* line 76: the depart dates loop is exhausted
RoundTripDepartDone ==
    /\ pc = "rt_depart"
    /\ k > Len(depart_dates)
    /\ pc' = "rt_pair" /\ j' = j + 1
    /\ UNCHANGED <<env, args, cities, depart_dates, return_dates, i, k, l,
                   raw, csv, clock, log, skipped>>

\* line 77: enter the return dates loop
RoundTripEnterReturn ==
    /\ pc = "rt_depart"
    /\ k <= Len(depart_dates)
    /\ pc' = "rt_return" /\ l' = 1
    /\ UNCHANGED <<env, args, cities, depart_dates, return_dates, i, j, k,
                   raw, csv, clock, log, skipped>>

\* line 77: the return dates loop is exhausted
RoundTripReturnDone ==
    /\ pc = "rt_return"
    /\ l > Len(return_dates)
    /\ pc' = "rt_depart" /\ k' = k + 1
    /\ UNCHANGED <<env, args, cities, depart_dates, return_dates, i, j, l,
                   raw, csv, clock, log, skipped>>

\* variant: the filter written with < instead of <=
ReturnBefore(return_date, depart_date) ==
    DateLE(return_date, depart_date) /\ return_date # depart_date

\* line 78: return_date <= depart_date
ReturnNotAfter(return_date, depart_date) == DateLE(return_date, depart_date)

\* lines 78-79
RoundTripSkipDates ==
    /\ pc = "rt_return"
    /\ l <= Len(return_dates)
    /\ ReturnNotAfter(return_dates[l], depart_dates[k])
    /\ l' = l + 1
    /\ skipped' = skipped + 1
    /\ UNCHANGED <<env, args, pc, cities, depart_dates, return_dates, i, j, k,
                   raw, csv, clock, log>>

\* lines 80-90: fetch_roundtrip_data_raw(...) (round_trip.py lines 20-39)
RoundTripFetch ==
    /\ pc = "rt_return"
    /\ l <= Len(return_dates)
    /\ ~ReturnNotAfter(return_dates[l], depart_dates[k])
    /\ LET from_city   == cities[i]
           to_city     == cities[j]
           depart_date == depart_dates[k]
           return_date == return_dates[l]
           raw_json    == RoundTripName(from_city, to_city, depart_date, return_date, ".json")
           query       == <<from_city, to_city, DateStr(depart_date), DateStr(return_date)>>
           call        == Event("fetch", "round-trip", query, raw_json, None)
       IN \E outcome \in ProviderOutcomes :
            IF outcome = "error"
            THEN /\ pc' = "failed"
                 /\ log' = Append(Forget(log), call)
                 /\ raw' = raw
            ELSE LET results == RoundtripResults(
                        ProviderResults(outcome, from_city, to_city, DateStr(depart_date)),
                        clock)
                 IN /\ raw' = WriteFile(raw, raw_json, results)
                    /\ log' = Forget(log) \o <<call,
                                Event("raw_write", "round-trip", query, raw_json, results)>>
                    /\ pc' = "rt_process"
    /\ clock' = clock + 1
    /\ UNCHANGED <<env, args, cities, depart_dates, return_dates, i, j, k, l,
                   csv, skipped>>

\* lines 91-94: process_roundtrip_data(...) (round_trip.py lines 49-79)
RoundTripProcess ==
    /\ pc = "rt_process"
    /\ LET from_city   == cities[i]
           to_city     == cities[j]
           depart_date == depart_dates[k]
           return_date == return_dates[l]
           raw_json    == RoundTripName(from_city, to_city, depart_date, return_date, ".json")
           csv_file    == RoundTripName(from_city, to_city, depart_date, return_date, ".csv")
           query       == <<from_city, to_city, DateStr(depart_date), DateStr(return_date)>>
           data        == raw[raw_json]
           result      == ProcessRoundtripData(data)
           read        == Event("normalize", "round-trip", query, raw_json, data)
       IN /\ csv' = CsvAfterProcess(csv, csv_file, result)
          /\ log' = IF result.raised THEN Append(log, read)
                     ELSE log \o <<read,
                              Event("csv_write", "round-trip", query, csv_file, None)>>
          /\ pc' = AfterCall(result.raised, "rt_return", l).pc
          /\ l' = AfterCall(result.raised, "rt_return", l).idx
    /\ clock' = clock + 1
    /\ UNCHANGED <<env, args, cities, depart_dates, return_dates, i, j, k,
                   raw, skipped>>

Next ==
    \/ StartupRaises
    \/ Startup
    \/ OneWayCitiesDone
    \/ OneWayNextOrigin
    \/ OneWaySelfPair
    \/ OneWayEnterDates
    \/ OneWayDatesDone
    \/ OneWayFetch
    \/ OneWayProcess
    \/ RoundTripGuard
    \/ RoundTripCitiesDone
    \/ RoundTripNextOrigin
    \/ RoundTripSelfPair
    \/ RoundTripEnterDates
    \/ RoundTripDepartDone
    \/ RoundTripEnterReturn
    \/ RoundTripReturnDone
    \/ RoundTripSkipDates
    \/ RoundTripFetch
    \/ RoundTripProcess

Spec == Init /\ [][Next]_vars

-----------------------------------------------------------------------------
(* The provider, seen from one_way.main() and round_trip.main(): documents  *)
(* with any mix of usable and defective itineraries.                       *)

Airport(code, time) == [id |-> <<code>>, name |-> <<code \o " Airport">>, time |-> <<time>>]

SegFull ==
    [ flight_number |-> <<"AI 101">>, airline |-> <<"Air India">>,
      airplane |-> <<"A320">>, travel_class |-> <<"Economy">>, legroom |-> <<"30 in">>,
      departure_airport |-> Airport("DEL", "2025-01-31 06:00"),
      arrival_airport |-> Airport("BOM", "2025-01-31 08:05"),
      duration |-> <<125>> ]

\* only the required airport references
SegBare ==
    [ departure_airport |-> Airport("DEL", "2025-01-31 09:00"),
      arrival_airport |-> Airport("BOM", "2025-01-31 11:00") ]

SegNoDepartureTime ==
    [ airline |-> <<"Air India">>,
      departure_airport |-> [id |-> <<"DEL">>, name |-> <<"DEL Airport">>],
      arrival_airport |-> Airport("BOM", "2025-01-31 11:00"),
      duration |-> <<120>> ]

SegNoArrival ==
    [ airline |-> <<"Air India">>,
      departure_airport |-> Airport("DEL", "2025-01-31 09:00") ]

\* no total_duration, the segment has a duration
EntrySegmentDuration ==
    [ flights |-> <<SegFull>>, price |-> <<100>>, type |-> <<"Round trip">>,
      booking_token |-> <<"bt-100">>, departure_token |-> <<"dt-100">> ]

\* total_duration present (and 0), two segments
EntryTotalDuration ==
    [ flights |-> <<SegFull, SegBare>>, total_duration |-> <<0>>, price |-> <<200>> ]

\* nothing optional at all
EntryBare == [ flights |-> <<SegBare>> ]

GoodEntries == {EntrySegmentDuration, EntryTotalDuration, EntryBare}

BadEntries ==
    { [price |-> <<400>>],
      [flights |-> <<>>, price |-> <<500>>],
      [flights |-> <<SegNoDepartureTime>>, price |-> <<600>>],
      [flights |-> <<SegNoArrival, SegFull>>, price |-> <<700>>] }

Entries == GoodEntries \cup BadEntries

\* a key of the document: absent (<<>>) or present with a list (<<list>>)
OptionalList(n) == {<<>>} \cup {<<q>> : q \in SeqsFrom0(Entries, n)}

Document(best, other) ==
    [key \in (IF best = <<>> THEN {} ELSE {"best_flights"})
             \cup (IF other = <<>> THEN {} ELSE {"other_flights"})
             \cup {"search_metadata"} |->
        CASE key = "best_flights"  -> best[1]
          [] key = "other_flights" -> other[1]
          [] OTHER                 -> [status |-> <<"Success">>]]

Documents ==
    {Document(best, other) : best \in OptionalList(MaxBest), other \in OptionalList(MaxOther)}

-----------------------------------------------------------------------------
(* one_way.main() and round_trip.main(): one tuple, fetched and normalized *)

\* the command line of one of the two scripts; <<>> is an option left out
SingleArgs ==
    [ prog        : {"one_way", "round_trip"},
      from_city   : {"DEL"},
      to_city     : {"BOM"},
      depart_date : {"2025-01-31"},
      return_date : {"2025-02-01"},
      raw_json    : {<<>>, <<"flights.json">>},
      output_csv  : {<<>>} ]

InitSingle ==
    /\ env \in {<<>>, <<"key">>}
    /\ args \in SingleArgs
    /\ pc = "m_start"
    /\ cities = <<>> /\ depart_dates = <<>> /\ return_dates = <<>>
    /\ i = 1 /\ j = 1 /\ k = 1 /\ l = 1
    /\ raw = <<>> /\ csv = <<>>
    /\ clock = 0
    /\ log = <<>>
    /\ skipped = 0

\* args.raw_json or f"{from_city}_{to_city}_{depart_date}[_{return_date}].json"
SingleName(option, ext) ==
    IF option # <<>> /\ option # <<"">> THEN option[1]
    ELSE IF args.prog = "one_way"
         THEN args.from_city \o "_" \o args.to_city \o "_" \o args.depart_date \o ext
         ELSE args.from_city \o "_" \o args.to_city \o "_" \o args.depart_date
                  \o "_" \o args.return_date \o ext

SingleRawJson == SingleName(args.raw_json, ".json")
SingleOutputCsv == SingleName(args.output_csv, ".csv")

SingleQuery ==
    IF args.prog = "one_way"
    THEN <<args.from_city, args.to_city, args.depart_date>>
    ELSE <<args.from_city, args.to_city, args.depart_date, args.return_date>>

SingleTrip == IF args.prog = "one_way" THEN "one-way" ELSE "round-trip"

\* one_way.py lines 71-92, round_trip.py lines 83-106: parser.error() exits
SingleStartup ==
    /\ pc = "m_start"
    /\ pc' = IF ApiKeyMissing THEN "failed" ELSE "m_fetch"
    /\ UNCHANGED <<env, args, cities, depart_dates, return_dates, i, j, k, l,
                   raw, csv, clock, log, skipped>>

\* time passes while a script runs
Tick ==
    /\ pc \in {"m_fetch", "m_process"}
    /\ clock < MaxClock
    /\ clock' = clock + 1
    /\ UNCHANGED <<env, args, pc, cities, depart_dates, return_dates, i, j, k, l,
                   raw, csv, log, skipped>>

\* get_dict() raises in either script
SingleFetchRaises ==
    /\ pc = "m_fetch"
    /\ pc' = "failed"
    /\ log' = Append(log, Event("fetch", SingleTrip, SingleQuery, SingleRawJson, None))
    /\ UNCHANGED <<env, args, cities, depart_dates, return_dates, i, j, k, l,
                   raw, csv, clock, skipped>>

\* one_way.py lines 95-101: fetch_flight_data_raw (lines 16-30)
SingleFetchOneWay ==
    /\ pc = "m_fetch"
    /\ args.prog = "one_way"
    /\ \E doc \in Documents :
         LET results == OneWayResults(doc) IN
         /\ raw' = WriteFile(raw, SingleRawJson, results)
         /\ log' = log \o << Event("fetch", "one-way", SingleQuery, SingleRawJson, None),
                             Event("raw_write", "one-way", SingleQuery, SingleRawJson, results) >>
    /\ pc' = "m_process"
    /\ UNCHANGED <<env, args, cities, depart_dates, return_dates, i, j, k, l,
                   csv, clock, skipped>>

\* one_way.py lines 104-107: process_flight_data (lines 39-67)
SingleProcessOneWay ==
    /\ pc = "m_process"
    /\ args.prog = "one_way"
    /\ LET data   == raw[SingleRawJson]
           result == ProcessFlightData(data)
           read   == Event("normalize", "one-way", SingleQuery, SingleRawJson, data)
       IN /\ csv' = CsvAfterProcess(csv, SingleOutputCsv, result)
          /\ log' = IF result.raised THEN Append(log, read)
                    ELSE log \o <<read, Event("csv_write", "one-way", SingleQuery,
                                              SingleOutputCsv, None)>>
          /\ pc' = IF result.raised THEN "failed" ELSE "done"
    /\ UNCHANGED <<env, args, cities, depart_dates, return_dates, i, j, k, l,
                   raw, clock, skipped>>

\* round_trip.py lines 108-115: fetch_roundtrip_data_raw (lines 20-39)
SingleFetchRoundtrip ==
    /\ pc = "m_fetch"
    /\ args.prog = "round_trip"
    /\ \E doc \in Documents :
         LET results == RoundtripResults(doc, clock) IN
         /\ raw' = WriteFile(raw, SingleRawJson, results)
         /\ log' = log \o << Event("fetch", "round-trip", SingleQuery, SingleRawJson, None),
                             Event("raw_write", "round-trip", SingleQuery, SingleRawJson, results) >>
    /\ pc' = "m_process"
    /\ UNCHANGED <<env, args, cities, depart_dates, return_dates, i, j, k, l,
                   csv, clock, skipped>>

\* round_trip.py lines 116-119: process_roundtrip_data (lines 49-79)
SingleProcessRoundtrip ==
    /\ pc = "m_process"
    /\ args.prog = "round_trip"
    /\ LET data   == raw[SingleRawJson]
           result == ProcessRoundtripData(data)
           read   == Event("normalize", "round-trip", SingleQuery, SingleRawJson, data)
       IN /\ csv' = CsvAfterProcess(csv, SingleOutputCsv, result)
          /\ log' = IF result.raised THEN Append(log, read)
                    ELSE log \o <<read, Event("csv_write", "round-trip", SingleQuery,
                                              SingleOutputCsv, None)>>
          /\ pc' = IF result.raised THEN "failed" ELSE "done"
    /\ UNCHANGED <<env, args, cities, depart_dates, return_dates, i, j, k, l,
                   raw, clock, skipped>>

NextSingle ==
    \/ SingleStartup
    \/ Tick
    \/ SingleFetchRaises
    \/ SingleFetchOneWay
    \/ SingleProcessOneWay
    \/ SingleFetchRoundtrip
    \/ SingleProcessRoundtrip

SpecSingle == InitSingle /\ [][NextSingle]_vars

-----------------------------------------------------------------------------
(* Properties of the batch run (main.py)                                   *)

\* a date as one number, for comparing dates independently of DateLE
Ordinal(d) == d[1] * 10000 + d[2] * 100 + d[3]

FetchPositions(trip) ==
    {n \in 1..Len(log) : log[n].ev = "fetch" /\ log[n].trip = trip}

\* C1: every fetch main() issues has from_city # to_city, and every
\* round-trip fetch has a return date strictly after its depart date.
C1_QueryTupleInvariant ==
    \A n \in 1..Len(log) :
        log[n].ev = "fetch" =>
            /\ log[n].query[1] # log[n].query[2]
            /\ log[n].trip = "round-trip" =>
                 Ordinal(IsoTable[log[n].query[4]]) > Ordinal(IsoTable[log[n].query[3]])

\* both trip types fetched, a self pair and a (depart, return) pair filtered
C1_Witness ==
    /\ FetchPositions("one-way") # {}
    /\ FetchPositions("round-trip") # {}
    /\ skipped > 0
    /\ \E n \in 1..Len(args.depart_dates) : \E m \in 1..Len(args.return_dates) :
          args.depart_dates[n] # args.return_dates[m]
          /\ IsoTable[args.depart_dates[n]] = IsoTable[args.return_dates[m]]

\* C2: within one run no query tuple is fetched twice by the same loop.
C2_NoTupleRepeated ==
    \A m, n \in 1..Len(log) :
        (m < n /\ log[m].ev = "fetch" /\ log[n].ev = "fetch"
               /\ log[m].trip = log[n].trip)
        => log[m].query # log[n].query

\* C3: the number of round-trip tuples is at most |C|(|C|-1)|D_out||D_ret|,
\* and a completed enumeration reaches the bound exactly when no date pair
\* was filtered (|C| taken as the number of cities given).
C3_Bound ==
    Len(cities) * (Len(cities) - 1) * Len(depart_dates) * Len(return_dates)

C3_RoundTripCount ==
    /\ Cardinality(FetchPositions("round-trip")) <= C3_Bound
    /\ (pc = "done" /\ args.mode \in {"round-trip", "both"}) =>
          ((Cardinality(FetchPositions("round-trip")) = C3_Bound) <=> (skipped = 0))

\* C8: per tuple the events are fetch, raw write, normalize, CSV write; a
\* fetch starts only after the previous tuple's CSV write; the normalizer
\* reads the very document that the fetch of the same tuple wrote.
C8_Sequential ==
    \A n \in 1..Len(log) :
        /\ log[n].ev = "fetch" => (n = 1 \/ log[n-1].ev = "csv_write")
        /\ log[n].ev = "raw_write" =>
              /\ n > 1 /\ log[n-1].ev = "fetch"
              /\ log[n-1].query = log[n].query /\ log[n-1].trip = log[n].trip
        /\ log[n].ev = "normalize" =>
              /\ n > 1 /\ log[n-1].ev = "raw_write"
              /\ log[n-1].query = log[n].query /\ log[n-1].trip = log[n].trip
              /\ log[n-1].file = log[n].file
              /\ log[n-1].data = log[n].data
        /\ log[n].ev = "csv_write" =>
              /\ n > 1 /\ log[n-1].ev = "normalize"
              /\ log[n-1].query = log[n].query /\ log[n-1].trip = log[n].trip

\* a round-trip tuple is fetched a second time and normalized again
C8_Witness ==
    \E m, n \in 1..Len(log) :
        /\ m < n
        /\ log[m].ev = "csv_write" /\ log[n].ev = "csv_write"
        /\ log[m].trip = "round-trip" /\ log[m].file = log[n].file

\* a configuration error as the claim states it: every field of the
\* --return_dates value counts as an entry
C9_ConfigErrorAsClaimed ==
    \/ env = <<>> \/ env = <<"">>
    \/ \E n \in 1..Len(args.depart_dates) : ~IsIsoString(args.depart_dates[n])
    \/ \E n \in 1..Len(args.return_dates) : ~IsIsoString(args.return_dates[n])

\* C9 as stated: with a configuration error nothing is fetched or written.
C9_ConfigFatalAsClaimed ==
    C9_ConfigErrorAsClaimed => (log = <<>> /\ raw = <<>> /\ csv = <<>>)

\* a configuration error once an empty --return_dates value is set aside
C9_ConfigError ==
    \/ env = <<>> \/ env = <<"">>
    \/ \E n \in 1..Len(args.depart_dates) : ~IsIsoString(args.depart_dates[n])
    \/ /\ args.return_dates # <<"">>
       /\ \E n \in 1..Len(args.return_dates) : ~IsIsoString(args.return_dates[n])

\* C9 (amended): if the key is unset or empty, or an entry of --depart_dates
\* or of a non-empty --return_dates value is no ISO date, main() raises
\* before any fetch and nothing is written.
C9_ConfigFatal ==
    C9_ConfigError =>
        /\ pc \in {"start", "failed"}
        /\ log = <<>> /\ raw = <<>> /\ csv = <<>>

\* main() has raised on a bad return date although the mode is one-way
C9_Witness ==
    /\ pc = "failed"
    /\ env = <<"key">>
    /\ args.mode = "one-way"
    /\ ~IsoDatesRaises(args.depart_dates)
    /\ Len(args.return_dates) = 2 /\ IsoDatesRaises(args.return_dates)

\* the call at position n of the history raised
Raised(n) ==
    \/ log[n].ev = "fetch" /\ (n = Len(log) \/ log[n+1].ev # "raw_write")
    \/ log[n].ev = "normalize" /\ (n = Len(log) \/ log[n+1].ev # "csv_write")

\* C10: a call that raises is the last thing main() does: nothing is
\* fetched, normalized or written after it, a one-way failure means no
\* round-trip fetch, and the files stay as they are.
C10_FailureIsLast ==
    /\ \A n \in 1..Len(log) : Raised(n) => (n = Len(log) /\ pc = "failed")
    /\ (log # <<>> /\ Raised(Len(log)) /\ log[Len(log)].trip = "one-way")
          => FetchPositions("round-trip") = {}

C10_FailureStopsBatch ==
    /\ []C10_FailureIsLast
    /\ [][pc = "failed" => (pc' = "failed" /\ raw' = raw /\ csv' = csv /\ log' = log)]_vars

\* mode both: a one-way normalization fails after an earlier tuple completed
C10_Witness ==
    /\ pc = "failed"
    /\ args.mode = "both" /\ return_dates # <<>>
    /\ Len(log) > 4
    /\ log[Len(log)].ev = "normalize" /\ log[Len(log)].trip = "one-way"
    /\ csv # <<>>

-----------------------------------------------------------------------------
(* Properties of the normalizers (one_way.main, round_trip.main)           *)

\* the normalizer has been called
Normalized == log # <<>> /\ log[Len(log)].ev \in {"normalize", "csv_write"}

BestOf(data) == IF "best_flights" \in DOMAIN data THEN data["best_flights"] ELSE <<>>
OtherOf(data) == IF "other_flights" \in DOMAIN data THEN data["other_flights"] ELSE <<>>

\* the n-th Itinerary Entry of best_flights ++ other_flights
EntryAt(data, n) ==
    IF n <= Len(BestOf(data)) THEN BestOf(data)[n]
    ELSE OtherOf(data)[n - Len(BestOf(data))]

EntryCount(data) == Len(BestOf(data)) + Len(OtherOf(data))

WellFormedAirport(seg, which) ==
    which \in DOMAIN seg /\ {"id", "name", "time"} \subseteq DOMAIN seg[which]

WellFormedEntry(entry) ==
    /\ "flights" \in DOMAIN entry
    /\ entry["flights"] # <<>>
    /\ WellFormedAirport(entry["flights"][1], "departure_airport")
    /\ WellFormedAirport(entry["flights"][1], "arrival_airport")

WellFormed(data) == \A n \in 1..EntryCount(data) : WellFormedEntry(EntryAt(data, n))

\* the record is the one derived from the entry
RowOfEntry(row, entry) ==
    /\ row.price_usd = (IF "price" \in DOMAIN entry THEN entry["price"] ELSE None)
    /\ row.departure_time = entry["flights"][1]["departure_airport"]["time"]
    /\ row.arrival_airport_id = entry["flights"][1]["arrival_airport"]["id"]

\* C4: a well-formed document normalizes without error to one record per
\* entry of best_flights ++ other_flights, in that order, an absent key
\* counting as the empty list.
C4_OneRecordPerEntry ==
    (Normalized /\ WellFormed(raw[SingleRawJson])) =>
        /\ pc = "done"
        /\ SingleOutputCsv \in DOMAIN csv
        /\ Len(csv[SingleOutputCsv]) = EntryCount(raw[SingleRawJson])
        /\ \A n \in 1..EntryCount(raw[SingleRawJson]) :
              RowOfEntry(csv[SingleOutputCsv][n], EntryAt(raw[SingleRawJson], n))

\* best_flights = [A, B] with A # B, other_flights = [C] with C # B
C4_Witness ==
    /\ pc = "done"
    /\ Len(BestOf(raw[SingleRawJson])) = 2
    /\ Len(OtherOf(raw[SingleRawJson])) = 1
    /\ BestOf(raw[SingleRawJson])[1] # BestOf(raw[SingleRawJson])[2]
    /\ OtherOf(raw[SingleRawJson])[1] # BestOf(raw[SingleRawJson])[2]
    /\ Len(csv[SingleOutputCsv]) = 3

\* C5: a document with a defective entry at any position fails to normalize
\* and no CSV is written for it.
C5_AllOrNothing ==
    (Normalized /\ ~WellFormed(raw[SingleRawJson])) =>
        /\ pc = "failed"
        /\ csv = <<>>

\* the defective entry comes last, after two well-formed ones
C5_Witness ==
    /\ pc = "failed" /\ Normalized
    /\ EntryCount(raw[SingleRawJson]) = 3
    /\ WellFormedEntry(EntryAt(raw[SingleRawJson], 1))
    /\ WellFormedEntry(EntryAt(raw[SingleRawJson], 2))
    /\ ~WellFormedEntry(EntryAt(raw[SingleRawJson], 3))

\* the duration the claim prescribes for a one-way record
ExpectedDurationMin(entry) ==
    IF "total_duration" \in DOMAIN entry THEN entry["total_duration"]
    ELSE IF "duration" \in DOMAIN entry["flights"][1] THEN entry["flights"][1]["duration"]
    ELSE None

\* the duration the claim prescribes for a round-trip record
ExpectedTotalDurationMin(entry) ==
    IF "total_duration" \in DOMAIN entry THEN entry["total_duration"] ELSE None

\* C6: duration_min of a one-way record is total_duration, else the first
\* segment's duration, else absent; total_duration_min of a round-trip
\* record is total_duration or absent, never the segment's duration.
C6_DurationAsymmetry ==
    (pc = "done") =>
        \A n \in 1..Len(csv[SingleOutputCsv]) :
            IF args.prog = "one_way"
            THEN csv[SingleOutputCsv][n].duration_min
                    = ExpectedDurationMin(EntryAt(raw[SingleRawJson], n))
            ELSE csv[SingleOutputCsv][n].total_duration_min
                    = ExpectedTotalDurationMin(EntryAt(raw[SingleRawJson], n))

\* a round-trip record without total_duration whose segment has a duration
C6_Witness ==
    /\ pc = "done" /\ args.prog = "round_trip"
    /\ \E n \in 1..Len(csv[SingleOutputCsv]) :
          /\ "total_duration" \notin DOMAIN EntryAt(raw[SingleRawJson], n)
          /\ "duration" \in DOMAIN EntryAt(raw[SingleRawJson], n)["flights"][1]
          /\ csv[SingleOutputCsv][n].total_duration_min = None

\* the time at which fetch_roundtrip_data_raw was called
FetchTime == log[1].now

\* C7: every round-trip record carries the timestamp that the fetch wrote
\* into the raw document, whatever the time is when the document is normalized.
C7_FetchedAtPropagated ==
    (pc = "done" /\ args.prog = "round_trip") =>
        /\ raw[SingleRawJson]["_fetched_at"] = <<"T" \o ToString(FetchTime)>>
        /\ \A n \in 1..Len(csv[SingleOutputCsv]) :
              csv[SingleOutputCsv][n].fetched_at = raw[SingleRawJson]["_fetched_at"]

\* several records, normalized later than fetched
C7_Witness ==
    /\ pc = "done" /\ args.prog = "round_trip"
    /\ Len(csv[SingleOutputCsv]) >= 2
    /\ clock > FetchTime

=============================================================================
